---- MODULE Spec2Model ----
(***************************************************************************)
(* Model of src/components/Scene.tsx: three DraggableRow instances (Heads, *)
(* Torsos, Legs), each with its own spring value x, its own drag gesture   *)
(* and its own frame callback that lays out six slots with infinite        *)
(* wrapping and a shared rotation.                                         *)
(*                                                                         *)
(* Numbers.  World coordinates are fixed-point integers counted in ticks   *)
(* of 1/UNIT world unit, UNIT = 40, so that one tick is the world distance *)
(* of one pointer pixel (ox / 40).  Pixels are integers.  Angles are       *)
(* counted in degrees, FULL_TURN = 360 standing for Math.PI * 2.  The      *)
(* arithmetic is exact: IEEE rounding of the doubles is not modelled.      *)
(*                                                                         *)
(* Libraries.  useDrag reports offset = from() + movement, calls the       *)
(* handler on pointer down (no movement yet), on every pointer move and on *)
(* pointer up (the offset of the last move, down = false).  The spring of  *)
(* useSpring jumps on immediate: true; on immediate: false it approaches   *)
(* its goal frame by frame and ends exactly on it.  Its trajectory is not  *)
(* computed: a frame may show any sampled value strictly closer to the     *)
(* goal than the one before, on either side of the goal.  The frame loop   *)
(* advances a row's spring and then runs the row's useFrame callback.      *)
(***************************************************************************)
EXTENDS Integers, FiniteSets

\* ------------------------------------------------------------ constants

CHARACTER_COUNT == 6

SENSITIVITY == 40

\* ticks per world unit: one tick is the world distance of one pixel
UNIT == SENSITIVITY

SPACING_UNITS == 3

SPACING == SPACING_UNITS * UNIT

\* fault variant: the width counted over the gaps between the slots
TOTAL_WIDTH_Gaps == (CHARACTER_COUNT - 1) * SPACING

TOTAL_WIDTH == CHARACTER_COUNT * SPACING

START_X == -(((CHARACTER_COUNT - 1) * SPACING) \div 2)

FULL_TURN == 360

Rows == {"Heads", "Torsos", "Legs"}

indices == 0 .. (CHARACTER_COUNT - 1)

\* ---------------------------------------------------------------- bounds

\* gestures that may be started in one behaviour of Spec
MaxGestures == 2

\* a settling spring is observed at the multiples of SettleGrid ticks around its goal
SettleGrid == 20

\* SpecRelease draws the offset of the dragged row from MaxHalfWidths half
\* widths on either side of zero
MaxHalfWidths == 5

\* a pointer move event is MoveStep pixels to the left or to the right of where
\* the gesture started, or back on it
MoveStep == 4 * SENSITIVITY

Moves == {-MoveStep, 0, MoveStep}

DragOffsets == -(MaxHalfWidths * 9 * UNIT) .. (MaxHalfWidths * 9 * UNIT)

\* ------------------------------------------------------------ arithmetic

Abs(a) == IF a < 0 THEN -a ELSE a

\* JavaScript's remainder: the result takes the sign of the dividend
JsRem(a, b) == IF a >= 0 THEN a % b ELSE -((-a) % b)

\* Math.round(a / b) for b > 0: floor(a / b + 1/2), ties toward +infinity
MathRound(a, b) == (2 * a + b) \div (2 * b)

\* ox / 40, a world coordinate in ticks
CurrentX(ox) == (ox * UNIT) \div SENSITIVITY

\* x.get() * 40, pixels
Pixels(v) == (v * SENSITIVITY) \div UNIT

\* fault variant: Math.floor in place of Math.round
snapTargetFloor(currentX) == (currentX \div SPACING) * SPACING

\* Math.round(currentX / SPACING) * SPACING
snapTarget(currentX) == MathRound(currentX, SPACING) * SPACING

\* fault variant: one full rotation for every TOTAL_WIDTH moved
rotationYPerWidth(currentDrag) == (currentDrag * FULL_TURN) \div (CHARACTER_COUNT * SPACING)

\* fault variant: Math.PI in place of Math.PI * 2
rotationYHalfTurn(currentDrag) == (currentDrag * FULL_TURN) \div (2 * SPACING)

\* (currentDrag / SPACING) * Math.PI * 2
rotationY(currentDrag) == (currentDrag * FULL_TURN) \div SPACING

halfWidth == TOTAL_WIDTH \div 2

initialPos(i) == START_X + i * SPACING

\* fault variant: a single %, which keeps the sign of a negative position
wrappedPosSingle(currentPos) == JsRem(currentPos + halfWidth, TOTAL_WIDTH) - halfWidth

\* fault variant: the final - halfWidth left out
wrappedPosUncentered(currentPos) == JsRem(JsRem(currentPos + halfWidth, TOTAL_WIDTH) + TOTAL_WIDTH, TOTAL_WIDTH)

\* ((((currentPos + halfWidth) % TOTAL_WIDTH) + TOTAL_WIDTH) % TOTAL_WIDTH) - halfWidth
wrappedPos(currentPos) == JsRem(JsRem(currentPos + halfWidth, TOTAL_WIDTH) + TOTAL_WIDTH, TOTAL_WIDTH) - halfWidth

\* ----------------------------------------------------------------- state

VARIABLES
  x,            \* row -> the spring's current value (x.get()), ticks
  to,           \* row -> the spring's goal, ticks
  down,         \* row -> a drag gesture is in progress on the row
  lastOffset,   \* row -> the gesture's offset when it started (from), pixels
  offset,       \* row -> the gesture's offset ox = lastOffset + movement, pixels
  currentDrag,  \* row -> the value the row's last frame callback read from x
  position,     \* row -> slot -> group.position.x
  rotation,     \* row -> group.rotation.y of the row's slots, degrees
  gestures      \* number of gestures started so far

vars == <<x, to, down, lastOffset, offset, currentDrag, position, rotation, gestures>>

rowState(r) == <<x[r], to[r], down[r], lastOffset[r], offset[r], currentDrag[r], position[r], rotation[r]>>

\* ------------------------------------------------------------ operations

\* fault variant: no `from` option, the gesture resumes from its last offset
fromOmitted(r) == offset[r]

\* the `from` option of useDrag, () => [x.get() * 40, 0]: where a new
\* gesture's offset starts
from(r) == Pixels(x[r])

\* fault variant: one spring shared by the three rows
startShared(r, v) == [q \in Rows |-> v]

\* fault variant: immediate: false while dragging, only the goal moves
startEased(r, v) == x

\* api.start({ x: v, immediate: true }) on row r's spring: the value jumps to v
startImmediate(r, v) == [x EXCEPT ![r] = v]

\* pointer down on row r: the gesture's offset starts at from(), and the handler
\* runs with down = true and no movement yet
DragStart(r) ==
  /\ ~down[r]
  /\ gestures < MaxGestures
  /\ LET ox == from(r)
         currentX == CurrentX(ox)
     IN /\ lastOffset' = [lastOffset EXCEPT ![r] = ox]
        /\ offset' = [offset EXCEPT ![r] = ox]
        /\ x' = startImmediate(r, currentX)
        /\ to' = [to EXCEPT ![r] = currentX]
  /\ down' = [down EXCEPT ![r] = TRUE]
  /\ gestures' = gestures + 1
  /\ UNCHANGED <<currentDrag, position, rotation>>

\* pointer move on row r, p pixels from where the gesture started: the handler
\* runs with down = true
DragMove(r, p) ==
  /\ down[r]
  /\ LET ox == lastOffset[r] + p
         currentX == CurrentX(ox)
     IN /\ offset' = [offset EXCEPT ![r] = ox]
        /\ x' = startImmediate(r, currentX)
        /\ to' = [to EXCEPT ![r] = currentX]
  /\ UNCHANGED <<down, lastOffset, currentDrag, position, rotation, gestures>>

\* pointer up on row r: the handler runs with down = false and the gesture's
\* offset as the last pointer event left it; api.start({ x: snapTarget,
\* immediate: false }) moves only the spring's goal
DragEnd(r) ==
  /\ down[r]
  /\ LET ox == offset[r]
         currentX == CurrentX(ox)
     IN to' = [to EXCEPT ![r] = snapTarget(currentX)]
  /\ down' = [down EXCEPT ![r] = FALSE]
  /\ UNCHANGED <<x, lastOffset, offset, currentDrag, position, rotation, gestures>>

\* the values a spring at distance d from its goal may show one frame later:
\* strictly closer to the goal, on either side of it (the spring is
\* underdamped), or the goal itself
SettleSamples(d) == {s \in -(Abs(d) - 1) .. (Abs(d) - 1) : s % SettleGrid = 0}

\* the spring of row r one animation frame later: at rest it keeps its value
springAdvance(r) == IF x[r] = to[r] THEN {x[r]} ELSE {to[r] + d : d \in SettleSamples(x[r] - to[r])}

\* fault variant: the drag offset subtracted from the base position
slotPositionReversed(drag, i) == wrappedPos(initialPos(i) - drag)

\* group.position.x of slot i for the drag offset the frame read
slotPosition(drag, i) == wrappedPos(initialPos(i) + drag)

\* group.rotation.y after row r's frame callback read drag
rotationAfter(r, drag) == [rotation EXCEPT ![r] = rotationY(drag)]

\* the useFrame callback of row r, reading drag from x.get()
useFrame(r, drag) ==
  /\ currentDrag' = [currentDrag EXCEPT ![r] = drag]
  /\ rotation' = rotationAfter(r, drag)
  /\ position' = [position EXCEPT ![r] = [i \in indices |-> slotPosition(drag, i)]]

\* one animation frame of row r: the frame loop first advances the row's
\* spring, then runs the row's useFrame callback
Tick(r) ==
  /\ \E v \in springAdvance(r) :
       /\ x' = [x EXCEPT ![r] = v]
       /\ useFrame(r, v)
  /\ UNCHANGED <<to, down, lastOffset, offset, gestures>>

\* ------------------------------------------------- the scene, from rest

Init ==
  /\ x = [r \in Rows |-> 0]
  /\ to = [r \in Rows |-> 0]
  /\ down = [r \in Rows |-> FALSE]
  /\ lastOffset = [r \in Rows |-> 0]
  /\ offset = [r \in Rows |-> 0]
  /\ currentDrag = [r \in Rows |-> 0]
  /\ position = [r \in Rows |-> [i \in indices |-> initialPos(i)]]
  /\ rotation = [r \in Rows |-> 0]
  /\ gestures = 0

Next ==
  \E r \in Rows :
    \/ DragStart(r)
    \/ \E p \in Moves : DragMove(r, p)
    \/ DragEnd(r)
    \/ Tick(r)

Spec == Init /\ [][Next]_vars

\* ------------------------------- one row dragged anywhere, then released

\* the first gesture of the session has dragged row d by drag pixels' worth and
\* no frame has run since; the other rows are at rest
InitRelease ==
  \E d \in Rows, drag \in DragOffsets :
    /\ x = [r \in Rows |-> IF r = d THEN CurrentX(Pixels(drag)) ELSE 0]
    /\ to = x
    /\ down = [r \in Rows |-> r = d]
    /\ lastOffset = [r \in Rows |-> 0]
    /\ offset = [r \in Rows |-> IF r = d THEN Pixels(drag) ELSE 0]
    /\ currentDrag = [r \in Rows |-> 0]
    /\ position = [r \in Rows |-> [i \in indices |-> initialPos(i)]]
    /\ rotation = [r \in Rows |-> 0]
    /\ gestures = 1

NextRelease ==
  \E r \in Rows :
    \/ DragEnd(r)
    \/ Tick(r)

SpecRelease == InitRelease /\ [][NextRelease]_vars

\* the frame loop keeps running: every row's frame eventually comes
FairRelease == SpecRelease /\ \A r \in Rows : WF_vars(Tick(r))

\* ------------------------------------------------------------ properties

\* n tenths of a world unit, in ticks: Tenths(40) is 4.0
Tenths(n) == (n * UNIT) \div 10

\* the release offset of row r's last gesture, ox / 40, in ticks
ReleaseOffset(r) == (offset[r] * UNIT) \div 40

\* t is the multiple of 3.0 nearest to c, the upper one when c is half way
NearestSlot(t, c) == t % Tenths(30) = 0 /\ 2 * t - Tenths(30) <= 2 * c /\ 2 * c < 2 * t + Tenths(30)

\* base position of slot j: -7.5, -4.5, -1.5, 1.5, 4.5, 7.5
BasePos(j) == Tenths(-75) + j * Tenths(30)

atRest == <<0, 0, FALSE, 0, 0, 0, [i \in indices |-> BasePos(i)], 0>>

\* C1: once the pointer is released on a row, and no new gesture starts, the
\* row's offset eventually equals the multiple of 3.0 nearest to the release
\* offset (ties to the more positive multiple) and stays there for good.
C1_SettlesAtNearestSlot ==
  <>[](\A r \in Rows : down[r] \/ NearestSlot(x[r], ReleaseOffset(r)))

\* a row released at 4.0 rests at 3.0 and has been laid out there
C1_Witness ==
  \E r \in Rows :
    /\ ~down[r] /\ ReleaseOffset(r) = Tenths(40)
    /\ x[r] = Tenths(30) /\ to[r] = x[r] /\ currentDrag[r] = x[r]

\* C2: a gesture that begins while the row is settling at offset v starts from
\* v: the pointer-down update leaves the offset at v (not 0, not the snap
\* target), the spring stops there, and as long as the gesture's offset does
\* not change no frame moves the row any more.
C2_ReengageContinues ==
  [][\A r \in Rows :
       /\ (~down[r] /\ x[r] # to[r] /\ down'[r]) =>
            /\ x'[r] = x[r]
            /\ to'[r] = x[r]
            /\ lastOffset'[r] * UNIT = x[r] * 40
            /\ offset'[r] = lastOffset'[r]
       /\ (down[r] /\ down'[r] /\ offset'[r] = offset[r]) => x'[r] = x[r]]_vars

\* a gesture that began mid-settle, off every slot, and has not moved yet
C2_Witness ==
  \E r \in Rows :
    /\ down[r] /\ offset[r] = lastOffset[r]
    /\ x[r] % Tenths(30) # 0 /\ x[r] * 40 = lastOffset[r] * UNIT
    /\ currentDrag[r] = x[r]

\* C3: every action on one row leaves the offset, the controller state, the
\* slot positions and the rotation of the other two rows unchanged.
C3_RowsIndependent ==
  [][\A r \in Rows :
       (DragStart(r) \/ (\E p \in Moves : DragMove(r, p)) \/ DragEnd(r) \/ Tick(r)) =>
         \A q \in Rows \ {r} : rowState(q)' = rowState(q)]_vars

\* two rows rest on different slots, both laid out, the third was never touched
C3_Witness ==
  \E r, q, u \in Rows :
    /\ r # q /\ q # u /\ r # u
    /\ ~down[r] /\ x[r] = Tenths(30) /\ currentDrag[r] = x[r]
    /\ ~down[q] /\ x[q] = -Tenths(30) /\ currentDrag[q] = x[q]
    /\ rowState(u) = atRest

\* C4: every slot position a frame has written lies in [-9, 9).
C4_PositionsInInterval ==
  \A r \in Rows : \A i \in indices :
    position[r][i] >= -Tenths(90) /\ position[r][i] < Tenths(90)

\* a row more than two total widths to the left, laid out at that offset, with
\* a slot exactly on the lower edge
C4_Witness ==
  \E r \in Rows :
    /\ currentDrag[r] < -(2 * Tenths(180)) /\ currentDrag[r] = x[r]
    /\ \E i \in indices : position[r][i] = -Tenths(90)

\* C5: the six slot positions of a row are pairwise distinct and evenly
\* spaced: in ascending order each one is 3.0 after the one before, and the
\* smallest plus 18 is 3.0 after the largest.
C5_EvenlySpacedCover ==
  \A r \in Rows :
    LET P == {position[r][i] : i \in indices}
        hi == CHOOSE p \in P : \A o \in P : o <= p
        lo == CHOOSE p \in P : \A o \in P : p <= o
    IN /\ Cardinality(P) = 6
       /\ \A p \in P \ {hi} : p + Tenths(30) \in P
       /\ lo + Tenths(180) - hi = Tenths(30)

\* a row laid out at an offset that is no multiple of the spacing, with a slot
\* wrapped round from the right edge to the left
C5_Witness ==
  \E r \in Rows :
    /\ currentDrag[r] % Tenths(30) # 0 /\ currentDrag[r] > Tenths(180)
    /\ position[r][5] < position[r][0]

\* C6 as stated: at drag offset 9.0 slot 0 is at 1.5 and the rotation is two
\* full turns.
C6_Original ==
  \A r \in Rows :
    currentDrag[r] = Tenths(90) => position[r][0] = Tenths(15) /\ rotation[r] = 2 * FULL_TURN

\* C6, amended: at drag offset 9.0 slot 0 (base -7.5) is at 1.5 and the
\* rotation is three full turns, one for each spacing moved.
C6_ThreeTurnsAtNine ==
  \A r \in Rows :
    currentDrag[r] = Tenths(90) =>
      /\ initialPos(0) = Tenths(-75)
      /\ position[r][0] = Tenths(15)
      /\ rotation[r] = 3 * FULL_TURN

\* a row dragged to 9.0 and laid out there
C6_Witness ==
  \E r \in Rows : x[r] = Tenths(90) /\ currentDrag[r] = Tenths(90) /\ rotation[r] # 0

KRange == -MaxHalfWidths .. MaxHalfWidths

\* C7: moving the drag offset by k spacings changes the rotation by exactly k
\* full turns; so the rotation a frame applies at a multiple of the spacing,
\* and in particular on a settled row, is a whole number of full turns.
C7_RotationPeriodic ==
  \A r \in Rows :
    /\ \A k \in KRange : rotationY(x[r] + k * Tenths(30)) = rotationY(x[r]) + k * FULL_TURN
    /\ rotation[r] = rotationY(currentDrag[r])
    /\ currentDrag[r] % Tenths(30) = 0 => rotation[r] % FULL_TURN = 0
    /\ (~down[r] /\ x[r] = to[r] /\ currentDrag[r] = x[r]) => rotation[r] % FULL_TURN = 0

\* a row settled four or more slots to the left and laid out there
C7_Witness ==
  \E r \in Rows :
    /\ ~down[r] /\ x[r] = to[r] /\ currentDrag[r] = x[r]
    /\ x[r] <= -(4 * Tenths(30)) /\ rotation[r] <= -(4 * FULL_TURN)

\* C8 as stated: while a row is dragged its offset is p / 40, p the pixels
\* moved since the gesture started.
C8_Original ==
  \A r \in Rows : down[r] => x[r] * 40 = (offset[r] - lastOffset[r]) * UNIT

\* C8, amended: every drag update sets the row's offset, in that step and with
\* the spring at rest on it, to b + p / 40, where b is the row's offset when
\* the gesture started and p the pixels moved since.
C8_DragFollowsPointer ==
  [][\A r \in Rows :
       down'[r] =>
         LET b == IF down[r] THEN (lastOffset[r] * UNIT) \div 40 ELSE x[r]
             p == offset'[r] - lastOffset'[r]
         IN /\ x'[r] * 40 = b * 40 + p * UNIT
            /\ to'[r] = x'[r]]_vars

\* a gesture that started off zero and has moved the row
C8_Witness ==
  \E r \in Rows :
    /\ down[r] /\ lastOffset[r] # 0 /\ offset[r] # lastOffset[r]
    /\ x[r] * 40 = offset[r] * UNIT

\* C9: wrapping is idempotent, on every position a frame wraps and on every
\* position it has written, the edges -9 and +9 included.
C9_WrapIdempotent ==
  \A r \in Rows : \A i \in indices :
    /\ wrappedPos(wrappedPos(initialPos(i) + x[r])) = wrappedPos(initialPos(i) + x[r])
    /\ wrappedPos(position[r][i]) = position[r][i]

\* a frame wrapped a slot standing exactly on +9 to -9, and a slot standing
\* left of zero
C9_Witness ==
  \E r \in Rows : \E i, j \in indices :
    /\ initialPos(i) + currentDrag[r] = Tenths(90) /\ position[r][i] = -Tenths(90)
    /\ initialPos(j) + currentDrag[r] < 0 /\ position[r][j] = initialPos(j) + currentDrag[r]

\* C10: a row at rest is on a multiple k of the spacing, and a frame that reads
\* such an offset puts slot i on the base position of slot (i + k) mod 6: the
\* six base positions each hold one slot, in every row alike.
C10_SettledOnBasePositions ==
  \A r \in Rows :
    /\ (~down[r] /\ x[r] = to[r]) => x[r] % Tenths(30) = 0
    /\ currentDrag[r] % Tenths(30) = 0 =>
         LET k == currentDrag[r] \div Tenths(30)
         IN /\ \A i \in indices : position[r][i] = BasePos((i + k) % 6)
            /\ {position[r][i] : i \in indices} = {BasePos(j) : j \in 0 .. 5}

\* a row at rest more than a total width to the left, not a whole number of
\* widths, and laid out there
C10_Witness ==
  \E r \in Rows :
    /\ ~down[r] /\ x[r] = to[r] /\ currentDrag[r] = x[r]
    /\ x[r] < -Tenths(180) /\ x[r] % Tenths(180) # 0
    /\ position[r][0] # BasePos(0)

====
